---- MODULE Spec2Model ----
(***************************************************************************)
(* The nfs4 repository in three parts.                                    *)
(*                                                                         *)
(* Spec, SpecPing: the SUN-RPC client (sun_rpc_client/src/lib.rs):         *)
(* RpcClient::new, RpcClient::send_request, RpcClient::receive_reply and   *)
(* the ping test, over a byte-stream transport with record marking.        *)
(*                                                                         *)
(* SpecCli: the nfs4 command line (cli/src/bin/nfs4.rs), main and the      *)
(* methods of Cli, one step per statement.                                 *)
(*                                                                         *)
(* SpecNfs, SpecNfsFair: the operations of nfs4_client::Client, as         *)
(* spec.md 4.3 describes them, against a server that keeps the files of    *)
(* one directory.                                                          *)
(*                                                                         *)
(* Bytes are numbers 0..255; a u32 on the wire is its four big-endian      *)
(* bytes.  Values of 2^31 and above are never formed as numbers: the top   *)
(* bit of a word is handled on its first byte.                             *)
(***************************************************************************)
EXTENDS Integers, Sequences, FiniteSets, TLC

VARIABLES
    xid,          \* RpcClient.xid
    program,      \* RpcClient.program
    progArg,      \* the program RpcClient::new was called with
    lastWrite,    \* bytes the most recent write_all put on the transport
    wireXids,     \* xids carried by the call messages put on the transport, in order
    inbuf,        \* bytes the server has written and the client has not read yet
    pend,         \* server messages that start in inbuf: [off, len, desc]
    ret,          \* what the most recent RpcClient call returned (and what it read)
    lastCallXid,  \* xid of the message built by the most recent send_request
    ncalls,       \* number of send_request calls so far
    nrecv,        \* number of receive_reply calls that returned so far
    nserver,      \* number of messages the server has written so far
    nwrites,      \* number of write_all calls made on the transport so far
    pc,           \* position of the caller: "api" (any caller) or a line of ping
    command,      \* nfs4 command line: [name, path, local]
    cpc,          \* position of the nfs4 binary in main and in the command's method
    ops,          \* calls the command made on nfs4_client::Client: [op, arg, res]
    localFile,    \* the local file of download/upload
    localHandle,  \* how the command holds the local file
    remoteFile,   \* the remote file the path names
    cliRet,       \* what main returned
    fs,           \* the server's /files directory: name -> [there, data]
    fpc,          \* the nfs4_client operation in progress, or "idle"
    cur,          \* the operation in progress: its arguments and loop variables
    lastOp,       \* the most recent operation that returned, and its result
    prevOp,       \* the operation that returned before it
    made,         \* per name, the most recent create_file or remove that succeeded
    nops          \* number of nfs4_client operations begun so far

rpcVars == <<xid, program, progArg, lastWrite, wireXids, inbuf, pend, ret, lastCallXid,
             ncalls, nrecv, nserver, nwrites, pc>>

cliVars == <<command, cpc, ops, localFile, localHandle, remoteFile, cliRet>>

nfsVars == <<fs, fpc, cur, lastOp, prevOp, made, nops>>

vars == <<rpcVars, cliVars, nfsVars>>

----------------------------------------------------------------------------
(* Bounds of the model.                                                    *)

MaxOps == 3

----------------------------------------------------------------------------
(* Program constants.                                                      *)

PORT_MAPPER == 100000
NFS_PROGRAM == 100003
NULL_PROCEDURE == 0
XID_SEED == 1
RPC_VERSION == 2
NFS_VERSION == 4
AUTH_STAMP == 0
AUTH_UID == 1337
AUTH_GID == 42

\* "test-machine" as ASCII
MACHINE_NAME == <<116, 101, 115, 116, 45, 109, 97, 99, 104, 105, 110, 101>>

----------------------------------------------------------------------------
(* XDR primitives (RFC 4506): big-endian u32, opaque with padding.         *)

Min(a, b) == IF a < b THEN a ELSE b

\* the four big-endian bytes of n, 0 <= n < 2^31
U32BE(n) ==
    << n \div 16777216, (n \div 65536) % 256, (n \div 256) % 256, n % 256 >>

\* the low 31 bits of a four-byte word, as a number
Low31(w) == (w[1] % 128) * 16777216 + w[2] * 65536 + w[3] * 256 + w[4]

\* bit 31 of a four-byte word
TopBit(w) == w[1] \div 128

Pad4(n) == ((n + 3) \div 4) * 4

Zeros(n) == [i \in 1..n |-> 0]

\* variable-length opaque / string: length, bytes, zero padding to 4
XdrOpaque(b) == U32BE(Len(b)) \o b \o Zeros(Pad4(Len(b)) - Len(b))

RECURSIVE XdrU32Array(_)
\* the elements of a counted array of u32, one after the other
XdrU32Array(a) ==
    IF a = <<>> THEN <<>> ELSE U32BE(Head(a)) \o XdrU32Array(Tail(a))

----------------------------------------------------------------------------
(* Call arguments a caller may pass: (), a u32, and a value whose          *)
(* Serialize implementation fails.                                         *)

UnitArgs == [kind |-> "unit", v |-> 0]
U32Args == [kind |-> "u32", v |-> 7]
BadArgs == [kind |-> "bad", v |-> 0]
CallArgs == {UnitArgs, U32Args, BadArgs}
Procedures == {NULL_PROCEDURE, 1}

CanSerialize(a) == a.kind # "bad"
SerializeArgs(a) == IF a.kind = "u32" THEN U32BE(a.v) ELSE <<>>

----------------------------------------------------------------------------
(* The call message send_request builds.                                   *)

AuthSysParameters ==
    [stamp |-> AUTH_STAMP, machine_name |-> MACHINE_NAME,
     uid |-> AUTH_UID, gid |-> AUTH_GID, gids |-> <<1337>>]

\* the message with another protocol version
CallMessageVersion3(x, prog, procedure, call_args) ==
    [xid |-> x,
     rpc_version |-> RPC_VERSION,
     program |-> prog,
     version |-> 3,
     procedure |-> procedure,
     credential |-> [flavor |-> 1, params |-> AuthSysParameters],
     verifier |-> [flavor |-> 0],
     call_args |-> call_args]

CallMessage(x, prog, procedure, call_args) ==
    [xid |-> x,
     rpc_version |-> RPC_VERSION,
     program |-> prog,
     version |-> NFS_VERSION,
     procedure |-> procedure,
     credential |-> [flavor |-> 1, params |-> AuthSysParameters],
     verifier |-> [flavor |-> 0],
     call_args |-> call_args]

\* body of an AUTH_SYS credential (RFC 5531 appendix A)
SerializeAuthSys(p) ==
    U32BE(p.stamp) \o XdrOpaque(p.machine_name) \o U32BE(p.uid) \o U32BE(p.gid)
        \o U32BE(Len(p.gids)) \o XdrU32Array(p.gids)

\* XDR of Message{xid, body: Call(CallBody)} (RFC 5531 section 9)
SerializeMessage(m) ==
    U32BE(m.xid) \o U32BE(0) \o U32BE(m.rpc_version) \o U32BE(m.program)
        \o U32BE(m.version) \o U32BE(m.procedure)
        \o U32BE(m.credential.flavor) \o XdrOpaque(SerializeAuthSys(m.credential.params))
        \o U32BE(m.verifier.flavor) \o XdrOpaque(<<>>)
        \o SerializeArgs(m.call_args)

\* the header without the last-fragment bit
FragmentHeaderNoLastBit(len) == U32BE(len)

\* (len as u32) | 0x1 << 31, as its big-endian bytes
FragmentHeader(len) ==
    LET w == U32BE(len) IN << (w[1] % 128) + 128, w[2], w[3], w[4] >>

\* let mut serialized = vec![0; 4]; to_writer(&mut serialized, &message);
\* then the header is written over the first four bytes
SerializedCall(m) ==
    LET serialized == Zeros(4) \o SerializeMessage(m)
        fragment_header == FragmentHeader(Len(serialized) - 4)
    IN  fragment_header \o SubSeq(serialized, 5, Len(serialized))

----------------------------------------------------------------------------
(* What a call returns, with what receive_reply read to get there.         *)

NoHead == [xid |-> 0, body |-> "none", shape |-> "none"]

Ret(op, res) ==
    [op |-> op, res |-> res, payload |-> <<>>, T |-> "none", decoded |-> FALSE,
     kind |-> "none", stat |-> "none", reply_xid |-> <<>>, consumed |-> 0,
     declared |-> 0, lastfrag |-> 0, left |-> 0,
     head |-> NoHead]

\* how many bytes of an n-byte buffer a write_all may put on the transport:
\* all of them, or a prefix before the transport fails
PartialLens == {0, 8}
WriteLens(n) == {n} \cup {k \in PartialLens : k < n}

\* a send_request that advances the xid before it knows the write succeeded
XidAdvancedBeforeWrite(x, written) == x + 1

\* RpcClient.xid after transport.write_all: the ? returns before the
\* increment when the write failed
XidAfterWrite(x, written) == IF written THEN x + 1 ELSE x

(* RpcClient::send_request *)
SendRequest(procedure, call_args) ==
    LET message == CallMessage(xid, program, procedure, call_args) IN
    /\ lastCallXid' = message.xid
    /\ ncalls' = ncalls + 1
    /\ IF ~CanSerialize(call_args)
       THEN /\ ret' = Ret("send_request", "Serialization")
            /\ UNCHANGED <<xid, lastWrite, wireXids, nwrites>>
       ELSE LET buffer == SerializedCall(message) IN
            \E n \in WriteLens(Len(buffer)) :
               /\ lastWrite' = SubSeq(buffer, 1, n)
               /\ nwrites' = nwrites + 1
               /\ wireXids' = IF n >= 8
                              THEN Append(wireXids, Low31(SubSeq(buffer, 5, 8)))
                              ELSE wireXids
               /\ xid' = XidAfterWrite(xid, n = Len(buffer))
               /\ ret' = Ret("send_request",
                             IF n = Len(buffer) THEN "Ok" ELSE "Io")
    /\ UNCHANGED <<program, progArg, inbuf, pend, nrecv, nserver>>

----------------------------------------------------------------------------
(* Reply messages a server may write (RFC 5531 section 9), and how it      *)
(* frames them (RFC 5531 section 11).                                      *)

AcceptedBodies ==
    {"Success", "SuccessU32", "ProgramUnavailable", "ProgramMismatch",
     "ProcedureUnavailable", "GarbageArguments", "SystemError"}
DeniedBodies == {"RpcMismatch", "AuthError"}
ReplyBodies == AcceptedBodies \cup DeniedBodies \cup {"Call"}

\* "exact": one last fragment of the message's length; "short": one last
\* fragment whose mark declares four bytes fewer than the message has;
\* "split": a first fragment of eight bytes, then the last fragment
Shapes == {"exact", "short", "split"}

AllServerMessages == [xid : {1, 2}, body : ReplyBodies, shape : Shapes]

\* every body in one exact fragment with the first xid; some of them with
\* another xid, truncated, or in two fragments
ServerMessages ==
    [xid : {1}, body : ReplyBodies, shape : {"exact"}]
        \cup [xid : {2}, body : {"Success", "AuthError"}, shape : {"exact"}]
        \cup [xid : {1}, body : {"Success", "ProgramMismatch"}, shape : {"short"}]
        \cup [xid : {1}, body : {"Success", "SuccessU32"}, shape : {"split"}]

\* accept_stat of an accepted reply body
AcceptStat(body) ==
    CASE body \in {"Success", "SuccessU32"} -> 0
      [] body = "ProgramUnavailable" -> 1
      [] body = "ProgramMismatch" -> 2
      [] body = "ProcedureUnavailable" -> 3
      [] body = "GarbageArguments" -> 4
      [] body = "SystemError" -> 5

\* what follows accept_stat: the result, or the {low, high} of a mismatch
AcceptedTail(body) ==
    CASE body = "SuccessU32" -> U32BE(7)
      [] body = "ProgramMismatch" -> U32BE(2) \o U32BE(3)
      [] OTHER -> <<>>

\* XDR of the message a server descriptor stands for
SerializeReply(x, body) ==
    IF body = "Call"
    THEN SerializeMessage(CallMessage(x, PORT_MAPPER, NULL_PROCEDURE, UnitArgs))
    ELSE IF body \in AcceptedBodies
    THEN U32BE(x) \o U32BE(1) \o U32BE(0) \o U32BE(0) \o XdrOpaque(<<>>)
            \o U32BE(AcceptStat(body)) \o AcceptedTail(body)
    ELSE IF body = "RpcMismatch"
    THEN U32BE(x) \o U32BE(1) \o U32BE(1) \o U32BE(0) \o U32BE(2) \o U32BE(2)
    ELSE U32BE(x) \o U32BE(1) \o U32BE(1) \o U32BE(1) \o U32BE(1)

\* a record mark: the last-fragment bit and the fragment's length
RecordMark(last, len) ==
    LET w == U32BE(len) IN << w[1] + 128 * last, w[2], w[3], w[4] >>

\* the bytes the server writes for a descriptor
Frame(d) ==
    LET m == SerializeReply(d.xid, d.body) IN
    CASE d.shape = "exact" -> RecordMark(1, Len(m)) \o m
      [] d.shape = "short" ->
            RecordMark(1, Len(m) - 4) \o SubSeq(m, 1, Len(m) - 4)
      [] d.shape = "split" ->
            RecordMark(0, 8) \o SubSeq(m, 1, 8)
                \o RecordMark(1, Len(m) - 8) \o SubSeq(m, 9, Len(m))

\* requests that reached the server whole
RequestsSent == xid - XID_SEED

(* the server answers a request it has not answered yet *)
ServerReply(d) ==
    /\ nserver < RequestsSent
    /\ inbuf' = inbuf \o Frame(d)
    /\ pend' = Append(pend, [off |-> Len(inbuf), len |-> Len(Frame(d)), desc |-> d])
    /\ nserver' = nserver + 1
    /\ UNCHANGED <<xid, program, progArg, lastWrite, wireXids, ret, lastCallXid, ncalls,
                   nrecv, nwrites, pc>>
    /\ UNCHANGED <<cliVars, nfsVars>>

----------------------------------------------------------------------------
(* serde_xdr::from_reader::<Message<T>>: reads the words it needs, one     *)
(* after the other, from the bytes b the reader can deliver.  st is "ok",  *)
(* "eof" (the reader ran out) or "invalid" (an unknown union tag); used is *)
(* the number of bytes read when st is not "eof".                          *)

ReplyTypes == {"unit", "u32"}

W(b, off) == SubSeq(b, off + 1, off + 4)
Has(b, off) == Len(b) >= off + 4

Dec(st, used, x, kind, stat, payload) ==
    [st |-> st, used |-> used, xid |-> x, kind |-> kind, stat |-> stat,
     payload |-> payload]

DecEof(x) == Dec("eof", 0, x, "none", "none", <<>>)
DecInvalid(used, x) == Dec("invalid", used, x, "none", "none", <<>>)

AuthFlavors == {U32BE(0), U32BE(1), U32BE(2), U32BE(3), U32BE(6)}

\* OpaqueAuth at off: [st, next]
DecodeAuth(b, off) ==
    IF ~Has(b, off) THEN [st |-> "eof", next |-> 0]
    ELSE IF W(b, off) \notin AuthFlavors THEN [st |-> "invalid", next |-> off + 4]
    ELSE IF ~Has(b, off + 4) THEN [st |-> "eof", next |-> 0]
    ELSE LET lw == W(b, off + 4) IN
         IF TopBit(lw) = 1 \/ Len(b) < off + 8 + Pad4(Low31(lw))
         THEN [st |-> "eof", next |-> 0]
         ELSE [st |-> "ok", next |-> off + 8 + Pad4(Low31(lw))]

\* the value of type T at off, then the end of the message
DecodeTail(b, off, T, x, kind, stat) ==
    IF T = "u32"
    THEN IF Has(b, off) THEN Dec("ok", off + 4, x, kind, stat, W(b, off))
         ELSE DecEof(x)
    ELSE Dec("ok", off, x, kind, stat, <<>>)

AcceptStatName(w) ==
    CASE w = U32BE(0) -> "Success"
      [] w = U32BE(1) -> "ProgramUnavailable"
      [] w = U32BE(2) -> "ProgramMismatch"
      [] w = U32BE(3) -> "ProcedureUnavailable"
      [] w = U32BE(4) -> "GarbageArguments"
      [] w = U32BE(5) -> "SystemError"
      [] OTHER -> "unknown"

DecodeAccepted(b, T, x) ==
    LET a == DecodeAuth(b, 12) IN
    IF a.st = "eof" THEN DecEof(x)
    ELSE IF a.st = "invalid" THEN DecInvalid(a.next, x)
    ELSE IF ~Has(b, a.next) THEN DecEof(x)
    ELSE LET stat == AcceptStatName(W(b, a.next)) IN
         IF stat = "unknown" THEN DecInvalid(a.next + 4, x)
         ELSE IF stat = "Success" THEN DecodeTail(b, a.next + 4, T, x, "Accepted", stat)
         ELSE IF stat = "ProgramMismatch"
         THEN IF Has(b, a.next + 8)
              THEN Dec("ok", a.next + 12, x, "Accepted", stat, <<>>)
              ELSE DecEof(x)
         ELSE Dec("ok", a.next + 4, x, "Accepted", stat, <<>>)

DecodeDenied(b, x) ==
    IF ~Has(b, 12) THEN DecEof(x)
    ELSE IF W(b, 12) = U32BE(0)
    THEN IF Has(b, 20) THEN Dec("ok", 24, x, "Denied", "RpcMismatch", <<>>)
         ELSE DecEof(x)
    ELSE IF W(b, 12) = U32BE(1)
    THEN IF ~Has(b, 16) THEN DecEof(x)
         ELSE IF TopBit(W(b, 16)) = 1 \/ Low31(W(b, 16)) > 14
         THEN DecInvalid(20, x)
         ELSE Dec("ok", 20, x, "Denied", "AuthError", <<>>)
    ELSE DecInvalid(16, x)

DecodeCall(b, T, x) ==
    IF ~Has(b, 20) THEN DecEof(x)
    ELSE LET c == DecodeAuth(b, 24) IN
         IF c.st = "eof" THEN DecEof(x)
         ELSE IF c.st = "invalid" THEN DecInvalid(c.next, x)
         ELSE LET v == DecodeAuth(b, c.next) IN
              IF v.st = "eof" THEN DecEof(x)
              ELSE IF v.st = "invalid" THEN DecInvalid(v.next, x)
              ELSE DecodeTail(b, v.next, T, x, "Call", "none")

DecodeMessage(b, T) ==
    IF ~Has(b, 0) THEN DecEof(<<>>)
    ELSE LET x == W(b, 0) IN
         IF ~Has(b, 4) THEN DecEof(x)
         ELSE IF W(b, 4) = U32BE(0) THEN DecodeCall(b, T, x)
         ELSE IF W(b, 4) # U32BE(1) THEN DecInvalid(8, x)
         ELSE IF ~Has(b, 8) THEN DecEof(x)
         ELSE IF W(b, 8) = U32BE(0) THEN DecodeAccepted(b, T, x)
         ELSE IF W(b, 8) = U32BE(1) THEN DecodeDenied(b, x)
         ELSE DecInvalid(12, x)

----------------------------------------------------------------------------
(* RpcClient::receive_reply                                                *)

\* the match with two arms sharing one error
ReplyResultMergedArms(reply) ==
    IF reply.kind = "Accepted"
    THEN CASE reply.stat = "Success" -> "Ok"
           [] reply.stat = "ProgramUnavailable" -> "ProgramUnavailable"
           [] reply.stat = "ProgramMismatch" -> "ProgramMismatch"
           [] reply.stat = "ProcedureUnavailable" -> "ProcedureUnavailable"
           [] reply.stat = "GarbageArguments" -> "SystemError"
           [] reply.stat = "SystemError" -> "SystemError"
    ELSE "UnexpectedReply"

\* the match on the decoded message: Ok(b) or the error it maps to
ReplyResult(reply) ==
    IF reply.kind = "Accepted"
    THEN CASE reply.stat = "Success" -> "Ok"
           [] reply.stat = "ProgramUnavailable" -> "ProgramUnavailable"
           [] reply.stat = "ProgramMismatch" -> "ProgramMismatch"
           [] reply.stat = "ProcedureUnavailable" -> "ProcedureUnavailable"
           [] reply.stat = "GarbageArguments" -> "GarbageArguments"
           [] reply.stat = "SystemError" -> "SystemError"
    ELSE "UnexpectedReply"

\* length = fragment_header & !(0x1 << 31)
FragmentLength(fragment_header) == Low31(fragment_header)

\* the reader without the bound
TakeUnbounded(buf, length) == SubSeq(buf, 5, Len(buf))

\* io::Read::take(&mut self.transport, length): the bytes after the record
\* mark that the bounded reader can deliver
TakeBytes(buf, length) == SubSeq(buf, 5, 4 + Min(length, Len(buf) - 4))

\* the pending server messages after the client read n bytes: one the
\* client has read into is no longer ahead of it
ShiftPend(p, n) ==
    SelectSeq([i \in 1..Len(p) |-> [p[i] EXCEPT !.off = @ - n]],
              LAMBDA e : e.off >= 0)

\* a receive_reply that sends the request again when the reply is not usable
WritesOfReceiveRetrying(res) == IF res = "UnexpectedReply" THEN 1 ELSE 0

\* write calls receive_reply makes on the transport, by outcome: its body
\* only reads from self.transport
WritesOfReceive(res) == 0

\* a read on the stream blocks until the bytes arrive: the call returns
\* only when every byte the decoder asks for is there
ReceiveReply(T) ==
    /\ Len(inbuf) >= 4
    /\ LET fragment_header == SubSeq(inbuf, 1, 4)
           length == FragmentLength(fragment_header)
           avail == Len(inbuf) - 4
           visible == TakeBytes(inbuf, length)
           reply == DecodeMessage(visible, T)
           consumed == 4 + (IF reply.st = "eof" THEN length ELSE reply.used)
       IN  /\ ~(reply.st = "eof" /\ length > avail)
           /\ inbuf' = SubSeq(inbuf, consumed + 1, Len(inbuf))
           /\ pend' = ShiftPend(pend, consumed)
           /\ ret' = [op |-> "receive_reply",
                      res |-> IF reply.st = "ok" THEN ReplyResult(reply)
                              ELSE "Deseralization",
                      payload |-> IF reply.st = "ok" THEN reply.payload ELSE <<>>,
                      T |-> T,
                      decoded |-> reply.st = "ok",
                      kind |-> reply.kind,
                      stat |-> reply.stat,
                      reply_xid |-> reply.xid,
                      consumed |-> consumed,
                      declared |-> length,
                      lastfrag |-> TopBit(fragment_header),
                      left |-> Len(inbuf) - consumed,
                      head |-> IF pend # <<>> /\ pend[1].off = 0
                               THEN pend[1].desc ELSE NoHead]
    /\ nrecv' = nrecv + 1
    /\ nwrites' = nwrites + WritesOfReceive(ret'.res)
    /\ UNCHANGED <<xid, program, progArg, lastWrite, wireXids, lastCallXid, ncalls,
                   nserver>>

----------------------------------------------------------------------------
(* RpcClient::new, and a caller that may call either method at any time.   *)

Programs == {PORT_MAPPER, NFS_PROGRAM}

New(prog) ==
    /\ xid = XID_SEED
    /\ program = prog
    /\ progArg = prog
    /\ lastWrite = <<>>
    /\ wireXids = <<>>
    /\ inbuf = <<>>
    /\ pend = <<>>
    /\ ret = Ret("none", "none")
    /\ lastCallXid = 0
    /\ ncalls = 0
    /\ nrecv = 0
    /\ nserver = 0
    /\ nwrites = 0

\* the nfs4 binary is not running
NoCommand == [name |-> "none", path |-> "none", local |-> "none"]

CliIdle ==
    /\ command = NoCommand
    /\ cpc = "idle"
    /\ ops = <<>>
    /\ localFile = "absent"
    /\ localHandle = "none"
    /\ remoteFile = "absent"
    /\ cliRet = "none"

\* the files of the server, the names they may have, and no operation of
\* nfs4_client begun
Names == {"a", "b", "c"}

Absent == [there |-> FALSE, data |-> <<>>]

NoOp ==
    [op |-> "none", name |-> "none", res |-> "none", data |-> <<>>, size |-> 0,
     names |-> <<>>, before |-> 0, trips |-> 0, rd |-> [count |-> 0, eof |-> FALSE],
     reqs |-> <<>>, reps |-> <<>>]

NoCur ==
    [name |-> "none", given |-> <<>>, src |-> <<>>, tail |-> <<>>, offset |-> 0, sink |-> <<>>,
     before |-> 0, trips |-> 0, rd |-> [count |-> 0, eof |-> FALSE],
     cookie |-> 0, verifier |-> 0, entries |-> <<>>, reqs |-> <<>>, reps |-> <<>>]

NfsIdle ==
    /\ fs = [n \in Names |-> Absent]
    /\ fpc = "idle"
    /\ cur = NoCur
    /\ lastOp = NoOp
    /\ prevOp = NoOp
    /\ made = [n \in Names |-> "none"]
    /\ nops = 0

Init == (\E prog \in Programs : New(prog)) /\ pc = "api" /\ CliIdle /\ NfsIdle

CallSend ==
    /\ pc = "api"
    /\ ncalls + nrecv < MaxOps
    /\ \E procedure \in Procedures, call_args \in CallArgs :
          SendRequest(procedure, call_args)
    /\ UNCHANGED pc
    /\ UNCHANGED <<cliVars, nfsVars>>

CallReceive ==
    /\ pc = "api"
    /\ ncalls + nrecv < MaxOps
    /\ \E T \in ReplyTypes : ReceiveReply(T)
    /\ UNCHANGED pc
    /\ UNCHANGED <<cliVars, nfsVars>>

Server == \E d \in ServerMessages : ServerReply(d)

Next == CallSend \/ CallReceive \/ Server

Spec == Init /\ [][Next]_vars

----------------------------------------------------------------------------
(* The ping test: one client on the portmapper program, one NULL call,     *)
(* each result unwrapped.                                                  *)

\* a ping that sends again instead of waiting for the reply
PingSendsAgain(res) == IF res = "Ok" THEN "send" ELSE "panicked"

\* where ping goes after client.send_request(NULL_PROCEDURE, ()).unwrap()
PingAfterSend(res) == IF res = "Ok" THEN "receive" ELSE "panicked"

\* where ping goes after client.receive_reply::<()>().unwrap()
PingAfterReceive(res) == IF res = "Ok" THEN "done" ELSE "panicked"

PingInit == New(PORT_MAPPER) /\ pc = "send" /\ CliIdle /\ NfsIdle

PingSend ==
    /\ pc = "send"
    /\ SendRequest(NULL_PROCEDURE, UnitArgs)
    /\ pc' = PingAfterSend(ret'.res)
    /\ UNCHANGED <<cliVars, nfsVars>>

PingReceive ==
    /\ pc = "receive"
    /\ ReceiveReply("unit")
    /\ pc' = PingAfterReceive(ret'.res)
    /\ UNCHANGED <<cliVars, nfsVars>>

\* the portmapper may answer with any body, xid and framing
PingServer == \E d \in AllServerMessages : ServerReply(d)

PingNext == PingSend \/ PingReceive \/ PingServer

SpecPing == PingInit /\ [][PingNext]_vars

----------------------------------------------------------------------------
(* The nfs4 command line (cli/src/bin/nfs4.rs): main, and the methods of   *)
(* Cli, one step per statement.  A path argument is one of five shapes:    *)
(* "file" (/files/a), "dir/" (/files/), "root" (/), "dotdot" (/files/..)   *)
(* and "nonutf8" (/files/<bytes that are not UTF-8>).                      *)

PathShapes == {"file", "dir/", "root", "dotdot", "nonutf8"}

\* Path::parent is None for the root
HasParent(p) == p # "root"

\* Path::file_name is None for the root and for a path that ends in ..
HasFileName(p) == p \notin {"root", "dotdot"}

\* OsStr::to_str is None for a name that is not UTF-8
IsUtf8(p) == p # "nonutf8"

\* to_string_lossy().ends_with('/')
EndsWithSlash(p) == p \in {"dir/", "root"}

PathCommands == {"get-attr", "set-attr", "read-dir", "ls", "remove", "download", "upload"}

HandleCommands == {"lsfh", "cat"}

Commands ==
    [name : {"get-attr", "set-attr", "read-dir", "ls", "remove"},
     path : PathShapes, local : {"none"}]
    \cup [name : {"download", "upload"}, path : PathShapes, local : PathShapes]
    \cup [name : HandleCommands, path : {"none"}, local : {"none"}]

\* results of a call on nfs4_client::Client, and of a local file operation
ClientResults == {"Ok", "NotFound", "Protocol", "Io"}
IoResults == {"Ok", "Io"}

\* the unwraps on the paths at the head of remove, download and upload
PathsSplit(c) ==
    CASE c.name = "remove" -> HasParent(c.path) /\ HasFileName(c.path)
      [] c.name = "download" -> EndsWithSlash(c.local) => HasFileName(c.path)
      [] c.name = "upload" -> IF EndsWithSlash(c.path)
                              THEN HasFileName(c.local)
                              ELSE HasParent(c.path) /\ HasFileName(c.path)
      [] OTHER -> TRUE

\* name.to_str().unwrap() in remove and upload
NameIsUtf8(c) ==
    IF c.name = "upload" /\ EndsWithSlash(c.path) THEN IsUtf8(c.local) ELSE IsUtf8(c.path)

\* what the command looks up: the path, or the directory that holds the name
LookUpArg(c) == IF c.name \in {"remove", "upload"} THEN "parent" ELSE "path"

\* the order of the statements of each method
GetAttrAfter(step) ==
    CASE step = "look_up" -> "get_attr"
      [] step = "get_attr" -> "done"

ReadDirAfter(step) ==
    CASE step = "look_up" -> "read_dir"
      [] step = "read_dir" -> "print"
      [] step = "print" -> "done"

RemoveAfter(step) ==
    CASE step = "paths" -> "look_up"
      [] step = "look_up" -> "remove"
      [] step = "remove" -> "done"

\* a download that creates the local file before it asks for the attributes
DownloadCreatesLocalFirst(step) ==
    CASE step = "paths" -> "look_up"
      [] step = "look_up" -> "create_local"
      [] step = "create_local" -> "get_attr"
      [] step = "get_attr" -> "size"
      [] step = "size" -> "read_all"
      [] step = "read_all" -> "done"

DownloadAfter(step) ==
    CASE step = "paths" -> "look_up"
      [] step = "look_up" -> "get_attr"
      [] step = "get_attr" -> "size"
      [] step = "size" -> "create_local"
      [] step = "create_local" -> "read_all"
      [] step = "read_all" -> "done"

SetAttrAfter(step) ==
    CASE step = "look_up" -> "set_attr"
      [] step = "set_attr" -> "done"

\* an upload that opens the local file before it creates the remote one
UploadOpensLocalFirst(step) ==
    CASE step = "paths" -> "look_up"
      [] step = "look_up" -> "open_local"
      [] step = "open_local" -> "metadata"
      [] step = "metadata" -> "create_file"
      [] step = "create_file" -> "write_all"
      [] step = "write_all" -> "done"

UploadAfter(step) ==
    CASE step = "paths" -> "look_up"
      [] step = "look_up" -> "create_file"
      [] step = "create_file" -> "open_local"
      [] step = "open_local" -> "metadata"
      [] step = "metadata" -> "write_all"
      [] step = "write_all" -> "done"

LsAfter(step) ==
    CASE step = "look_up" -> "read_dir"
      [] step = "read_dir" -> "print"
      [] step = "print" -> "done"

LsFhAfter(step) ==
    CASE step = "read_dir" -> "print"
      [] step = "print" -> "done"

CatAfter(step) ==
    CASE step = "read_all" -> "done"

After(c, step) ==
    CASE c.name = "get-attr" -> GetAttrAfter(step)
      [] c.name = "read-dir" -> ReadDirAfter(step)
      [] c.name = "remove" -> RemoveAfter(step)
      [] c.name = "download" -> DownloadAfter(step)
      [] c.name = "set-attr" -> SetAttrAfter(step)
      [] c.name = "upload" -> UploadAfter(step)
      [] c.name = "ls" -> LsAfter(step)
      [] c.name = "lsfh" -> LsFhAfter(step)
      [] c.name = "cat" -> CatAfter(step)

\* the first statement of the method main dispatches to
FirstStep(c) ==
    CASE c.name \in {"remove", "download", "upload"} -> "paths"
      [] c.name = "lsfh" -> "read_dir"
      [] c.name = "cat" -> "read_all"
      [] OTHER -> "look_up"

\* a command that goes on after a look_up that failed
LookUpErrorIgnored(res, next) == next

\* self.client.look_up(..)? : an error returns from the method
AfterLookUp(res, next) == IF res = "Ok" THEN next ELSE "error"

\* the ? on every other Result
Try(res, next) == IF res = "Ok" THEN next ELSE "error"

\* an unwrap on an Option
Unwrap(some, next) == IF some THEN next ELSE "panicked"

\* the position after a statement, and what main returns when the method ends
Goto(res, next) ==
    /\ cpc' = next
    /\ cliRet' = CASE next = "done" -> "Ok"
                   [] next = "error" -> res
                   [] next = "panicked" -> "panic"
                   [] OTHER -> cliRet

ClientCall(op, arg, res) == ops' = Append(ops, [op |-> op, arg |-> arg, res |-> res])

CliInit ==
    /\ New(NFS_PROGRAM)
    /\ pc = "cli"
    /\ NfsIdle
    /\ command \in Commands
    /\ cpc = "connect"
    /\ ops = <<>>
    /\ localFile \in {"absent", "old"}
    /\ localHandle = "none"
    /\ remoteFile \in {"absent", "old"}
    /\ cliRet = "none"

\* TcpStream::connect((opts.host, opts.port))?
CliConnect ==
    /\ cpc = "connect"
    /\ \E res \in IoResults : Goto(res, Try(res, "new"))
    /\ UNCHANGED <<command, ops, localFile, localHandle, remoteFile>>
    /\ UNCHANGED <<rpcVars, nfsVars>>

\* nfs4_client::Client::new(transport)? and the match on opts.command
CliNew ==
    /\ cpc = "new"
    /\ \E res \in ClientResults \ {"NotFound"} : Goto(res, Try(res, FirstStep(command)))
    /\ UNCHANGED <<command, ops, localFile, localHandle, remoteFile>>
    /\ UNCHANGED <<rpcVars, nfsVars>>

\* the paths remove, download and upload compute before any call
CliPaths ==
    /\ cpc = "paths"
    /\ Goto("Ok", Unwrap(PathsSplit(command), After(command, "paths")))
    /\ UNCHANGED <<command, ops, localFile, localHandle, remoteFile>>
    /\ UNCHANGED <<rpcVars, nfsVars>>

\* self.client.look_up(..)? ; a path that names the remote file resolves
\* only when the file is there
CliLookUp ==
    /\ cpc = "look_up"
    /\ \E res \in ClientResults :
          /\ res = "Ok" /\ LookUpArg(command) = "path" => remoteFile # "absent"
          /\ ClientCall("look_up", LookUpArg(command), res)
          /\ Goto(res, AfterLookUp(res, After(command, "look_up")))
    /\ UNCHANGED <<command, localFile, localHandle, remoteFile>>
    /\ UNCHANGED <<rpcVars, nfsVars>>

\* self.client.get_attr(handle)?
CliGetAttr ==
    /\ cpc = "get_attr"
    /\ \E res \in ClientResults \ {"NotFound"} :
          /\ ClientCall("get_attr", "handle", res)
          /\ Goto(res, Try(res, After(command, "get_attr")))
    /\ UNCHANGED <<command, localFile, localHandle, remoteFile>>
    /\ UNCHANGED <<rpcVars, nfsVars>>

\* remote_attrs.remove_as(FileAttributeId::Size).unwrap()
CliSize ==
    /\ cpc = "size"
    /\ \E hasSize \in BOOLEAN : Goto("Ok", Unwrap(hasSize, After(command, "size")))
    /\ UNCHANGED <<command, ops, localFile, localHandle, remoteFile>>
    /\ UNCHANGED <<rpcVars, nfsVars>>

\* std::fs::File::create(local_file)? : creates the file or truncates it
CliCreateLocal ==
    /\ cpc = "create_local"
    /\ \E res \in IoResults :
          /\ localFile' = IF res = "Ok" THEN "empty" ELSE localFile
          /\ localHandle' = IF res = "Ok" THEN "write" ELSE localHandle
          /\ Goto(res, Try(res, After(command, "create_local")))
    /\ UNCHANGED <<command, ops, remoteFile>>
    /\ UNCHANGED <<rpcVars, nfsVars>>

\* self.client.read_all(handle, writer)? : into the local file (download)
\* or to stdout (cat); the file is dropped, never removed, at the return
CliReadAll ==
    /\ cpc = "read_all"
    /\ \E res \in ClientResults \ {"NotFound"} :
          /\ ClientCall("read_all", "handle", res)
          /\ IF command.name = "download"
             THEN /\ localFile' \in IF res = "Ok" THEN {"complete"}
                                    ELSE {"empty", "partial"}
                  /\ localHandle' = "closed"
             ELSE UNCHANGED <<localFile, localHandle>>
          /\ Goto(res, Try(res, After(command, "read_all")))
    /\ UNCHANGED <<command, remoteFile>>
    /\ UNCHANGED <<rpcVars, nfsVars>>

\* self.client.set_attr(handle, attrs)?
CliSetAttr ==
    /\ cpc = "set_attr"
    /\ \E res \in ClientResults \ {"NotFound"} :
          /\ ClientCall("set_attr", "handle", res)
          /\ Goto(res, Try(res, After(command, "set_attr")))
    /\ UNCHANGED <<command, localFile, localHandle, remoteFile>>
    /\ UNCHANGED <<rpcVars, nfsVars>>

\* self.client.read_dir(handle, attr_request)?
CliReadDir ==
    /\ cpc = "read_dir"
    /\ \E res \in ClientResults \ {"NotFound"} :
          /\ ClientCall("read_dir", "handle", res)
          /\ Goto(res, Try(res, After(command, "read_dir")))
    /\ UNCHANGED <<command, localFile, localHandle, remoteFile>>
    /\ UNCHANGED <<rpcVars, nfsVars>>

\* print_listing, or the loop of ls and lsfh: each unwraps the attributes
\* it prints from every entry
CliPrint ==
    /\ cpc = "print"
    /\ \E hasAttrs \in BOOLEAN :
          Goto("Ok", Unwrap(hasAttrs, After(command, "print")))
    /\ UNCHANGED <<command, ops, localFile, localHandle, remoteFile>>
    /\ UNCHANGED <<rpcVars, nfsVars>>

\* self.client.remove(parent, name.to_str().unwrap())?
CliRemove ==
    /\ cpc = "remove"
    /\ IF ~NameIsUtf8(command)
       THEN /\ Goto("Ok", "panicked")
            /\ UNCHANGED <<ops, remoteFile>>
       ELSE \E res \in ClientResults :
               /\ res = "Ok" => remoteFile # "absent"
               /\ ClientCall("remove", "parent", res)
               /\ remoteFile' = IF res = "Ok" THEN "absent" ELSE remoteFile
               /\ Goto(res, Try(res, After(command, "remove")))
    /\ UNCHANGED <<command, localFile, localHandle>>
    /\ UNCHANGED <<rpcVars, nfsVars>>

\* self.client.create_file(parent, name.to_str().unwrap())? : an UNCHECKED
\* create leaves a file that is already there as it is
CliCreateFile ==
    /\ cpc = "create_file"
    /\ IF ~NameIsUtf8(command)
       THEN /\ Goto("Ok", "panicked")
            /\ UNCHANGED <<ops, remoteFile>>
       ELSE \E res \in ClientResults \ {"NotFound"} :
               /\ ClientCall("create_file", "parent", res)
               /\ remoteFile' = IF res = "Ok" /\ remoteFile = "absent"
                                THEN "empty" ELSE remoteFile
               /\ Goto(res, Try(res, After(command, "create_file")))
    /\ UNCHANGED <<command, localFile, localHandle>>
    /\ UNCHANGED <<rpcVars, nfsVars>>

\* std::fs::File::open(local)? : only a file that is there opens
CliOpenLocal ==
    /\ cpc = "open_local"
    /\ \E res \in IoResults :
          /\ res = "Ok" => localFile # "absent"
          /\ localHandle' = IF res = "Ok" THEN "read" ELSE localHandle
          /\ Goto(res, Try(res, After(command, "open_local")))
    /\ UNCHANGED <<command, ops, localFile, remoteFile>>
    /\ UNCHANGED <<rpcVars, nfsVars>>

\* file.metadata()?.len() for the progress bar
CliMetadata ==
    /\ cpc = "metadata"
    /\ \E res \in IoResults :
          /\ localHandle' = IF res = "Ok" THEN localHandle ELSE "closed"
          /\ Goto(res, Try(res, After(command, "metadata")))
    /\ UNCHANGED <<command, ops, localFile, remoteFile>>
    /\ UNCHANGED <<rpcVars, nfsVars>>

\* self.client.write_all(handle, reader)?
CliWriteAll ==
    /\ cpc = "write_all"
    /\ \E res \in ClientResults \ {"NotFound"} :
          /\ ClientCall("write_all", "handle", res)
          /\ remoteFile' \in IF res = "Ok" THEN {"written"} ELSE {remoteFile, "partial"}
          /\ localHandle' = "closed"
          /\ Goto(res, Try(res, After(command, "write_all")))
    /\ UNCHANGED <<command, localFile>>
    /\ UNCHANGED <<rpcVars, nfsVars>>

CliNext ==
    \/ CliConnect
    \/ CliNew
    \/ CliPaths
    \/ CliLookUp
    \/ CliGetAttr
    \/ CliSize
    \/ CliCreateLocal
    \/ CliReadAll
    \/ CliSetAttr
    \/ CliReadDir
    \/ CliPrint
    \/ CliRemove
    \/ CliCreateFile
    \/ CliOpenLocal
    \/ CliMetadata
    \/ CliWriteAll

SpecCli == CliInit /\ [][CliNext]_vars

----------------------------------------------------------------------------
(* nfs4_client::Client (spec.md 4.3) against a server that keeps the files *)
(* of one directory, /files.  A handle is written as the name it was       *)
(* looked up or created under.  Every READ, WRITE and READDIR round trip   *)
(* is one step; the other operations are one COMPOUND each.                *)

\* read_all and write_all move at most this many bytes per round trip
ChunkSize == 2

\* number of operations a caller begins
MaxNfsOps == 2

\* what a caller writes: nothing, less than a chunk, more than a chunk
Sources == {<<>>, <<7>>, <<7, 8, 9>>}

\* the Size a caller sets
Sizes == {0, 2}

\* entries the server fits into one READDIR reply
PageSizes == {1, 2}

File(d) == [there |-> TRUE, data |-> d]

\* the directory before the caller starts
InitialFs ==
    { [n \in Names |-> Absent],
      [n \in Names |-> IF n = "a" THEN File(<<>>) ELSE Absent],
      [n \in Names |-> IF n = "b" THEN Absent ELSE File(<<5, 6, 7>>)],
      [n \in Names |-> File(<<>>)] }

\* LOOKUP: NFS4ERR_NOENT is NotFound
LookUpStatus(f, n) == IF f[n].there THEN "Ok" ELSE "NotFound"

\* GETATTR of Size
SizeOf(f, n) == Len(f[n].data)

\* SETATTR of Size: the file is cut, or grown with zero bytes
Resize(d, s) == IF s <= Len(d) THEN SubSeq(d, 1, s) ELSE d \o Zeros(s - Len(d))

\* WRITE of w at offset: bytes outside offset+1 .. offset+Len(w) stay
Overwrite(d, offset, w) ==
    [i \in 1..(IF offset + Len(w) > Len(d) THEN offset + Len(w) ELSE Len(d)) |->
        IF i > offset /\ i <= offset + Len(w) THEN w[i - offset]
        ELSE IF i <= Len(d) THEN d[i] ELSE 0]

\* READDIR: the server's cookie of an entry, its listing in cookie order,
\* and a verifier that changes with the directory
SortedNames == <<"a", "b", "c">>

Cookie(n) == CASE n = "a" -> 1 [] n = "b" -> 2 [] n = "c" -> 3

Listing(f) == SelectSeq(SortedNames, LAMBDA n : f[n].there)

DirVerifier(f) ==
    8 + (IF f["a"].there THEN 1 ELSE 0) + (IF f["b"].there THEN 2 ELSE 0)
      + (IF f["c"].there THEN 4 ELSE 0)

ReadDirReply(f, cookie, verifier, k) ==
    LET rest == SelectSeq(Listing(f), LAMBDA n : Cookie(n) > cookie)
        page == SubSeq(rest, 1, Min(k, Len(rest)))
    IN  [status |-> IF cookie # 0 /\ verifier # DirVerifier(f) THEN "BadCookie" ELSE "Ok",
         entries |-> page,
         lastCookie |-> IF page = <<>> THEN cookie ELSE Cookie(page[Len(page)]),
         verifier |-> DirVerifier(f),
         eof |-> Len(page) = Len(rest)]

\* a read_dir that continues one past the last entry it was given
NextCookieSkips(cookie, entries) ==
    IF entries = <<>> THEN cookie ELSE Cookie(entries[Len(entries)]) + 1

\* read_dir advances cookie to the last entry's cookie
NextCookie(cookie, entries) ==
    IF entries = <<>> THEN cookie ELSE Cookie(entries[Len(entries)])

\* a read_all that takes a reply of zero bytes without eof for a short read
ReadAllIgnoresZero(count, eof) == IF eof THEN "done" ELSE "continue"

\* read_all after a READ reply: eof ends it, zero bytes without eof is a
\* protocol error, a short read continues
ReadAllAfter(count, eof) ==
    IF eof THEN "done" ELSE IF count = 0 THEN "error" ELSE "continue"

\* a write_all that takes every byte it submitted for written
WriteAdvanceSubmitted(offset, count, submitted) == offset + submitted

\* write_all advances offset by the server-reported count
WriteAdvance(offset, count, submitted) == offset + count

\* a look_up answered from what the client saw before
LookUpStale(f, n) == "Ok"

\* look_up(path): [PUTROOTFH, LOOKUP .., GETFH]
LookUp(f, n) == LookUpStatus(f, n)

\* a set_attr whose Size never reaches the server
SetAttrDropped(d, s) == d

\* set_attr(handle, {Size: s}): [PUTFH, SETATTR {stateid=0, attrs}]
SetAttrSize(d, s) == Resize(d, s)

Op(op, n, res) == [NoOp EXCEPT !.op = op, !.name = n, !.res = res]

\* the operation returns to the caller
Return(r) ==
    /\ lastOp' = r
    /\ prevOp' = lastOp
    /\ fpc' = "idle"
    /\ cur' = NoCur

\* a caller holds a handle only of a file that is there or was there
HasHandle(n) == fs[n].there \/ made[n] # "none"

Begin(op, n) ==
    /\ fpc = "idle"
    /\ nops < MaxNfsOps
    /\ nops' = nops + 1

NfsInit ==
    /\ New(NFS_PROGRAM)
    /\ pc = "nfs"
    /\ CliIdle
    /\ fs \in InitialFs
    /\ fpc = "idle"
    /\ cur = NoCur
    /\ lastOp = NoOp
    /\ prevOp = NoOp
    /\ made = [n \in Names |-> "none"]
    /\ nops = 0

NfsLookUp ==
    \E n \in Names :
       /\ Begin("look_up", n)
       /\ Return(Op("look_up", n, LookUp(fs, n)))
       /\ UNCHANGED <<fs, made>>
       /\ UNCHANGED <<rpcVars, cliVars>>

\* get_attr(path): the look_up COMPOUND ending in GETATTR
NfsGetAttr ==
    \E n \in Names :
       /\ Begin("get_attr", n)
       /\ Return([Op("get_attr", n, LookUpStatus(fs, n)) EXCEPT !.size = SizeOf(fs, n)])
       /\ UNCHANGED <<fs, made>>
       /\ UNCHANGED <<rpcVars, cliVars>>

NfsSetAttr ==
    \E n \in Names, s \in Sizes :
       /\ HasHandle(n)
       /\ Begin("set_attr", n)
       /\ IF fs[n].there
          THEN /\ fs' = [fs EXCEPT ![n].data = SetAttrSize(@, s)]
               /\ Return([Op("set_attr", n, "Ok") EXCEPT !.size = s])
          ELSE /\ fs' = fs
               /\ Return([Op("set_attr", n, "Stale") EXCEPT !.size = s])
       /\ UNCHANGED made
       /\ UNCHANGED <<rpcVars, cliVars>>

\* create_file(parent, name): [PUTFH, OPEN CREATE UNCHECKED, GETFH, CLOSE];
\* a file that is already there is opened as it is
NfsCreateFile ==
    \E n \in Names :
       /\ Begin("create_file", n)
       /\ fs' = IF fs[n].there THEN fs ELSE [fs EXCEPT ![n] = File(<<>>)]
       /\ made' = [made EXCEPT ![n] = "created"]
       /\ Return(Op("create_file", n, "Ok"))
       /\ UNCHANGED <<rpcVars, cliVars>>

\* remove(parent, name): [PUTFH, REMOVE]; NFS4ERR_NOENT is NotFound
NfsRemove ==
    \E n \in Names :
       /\ Begin("remove", n)
       /\ IF fs[n].there
          THEN /\ fs' = [fs EXCEPT ![n] = Absent]
               /\ made' = [made EXCEPT ![n] = "removed"]
               /\ Return(Op("remove", n, "Ok"))
          ELSE /\ UNCHANGED <<fs, made>>
               /\ Return(Op("remove", n, "NotFound"))
       /\ UNCHANGED <<rpcVars, cliVars>>

\* read_dir(handle of /files, attr_request) begins with cookie 0, verifier 0
NfsReadDir ==
    /\ Begin("read_dir", "files")
    /\ fpc' = "read_dir"
    /\ cur' = [NoCur EXCEPT !.name = "files"]
    /\ UNCHANGED <<fs, made, lastOp, prevOp>>
    /\ UNCHANGED <<rpcVars, cliVars>>

\* one READDIR round trip
NfsReadDirStep ==
    /\ fpc = "read_dir"
    /\ \E k \in PageSizes :
          LET reply == ReadDirReply(fs, cur.cookie, cur.verifier, k)
              entries == cur.entries \o reply.entries
              reqs == Append(cur.reqs, [cookie |-> cur.cookie, verifier |-> cur.verifier])
              reps == Append(cur.reps, [cookie |-> reply.lastCookie,
                                        verifier |-> reply.verifier,
                                        eof |-> reply.eof])
          IN  IF reply.status # "Ok"
              THEN Return(Op("read_dir", "files", reply.status))
              ELSE IF reply.eof
              THEN Return([Op("read_dir", "files", "Ok") EXCEPT
                              !.names = entries, !.reqs = reqs, !.reps = reps])
              ELSE /\ cur' = [cur EXCEPT !.cookie = NextCookie(cur.cookie, reply.entries),
                                         !.verifier = reply.verifier,
                                         !.entries = entries,
                                         !.reqs = reqs,
                                         !.reps = reps]
                   /\ UNCHANGED <<fpc, lastOp, prevOp>>
    /\ UNCHANGED <<fs, made, nops>>
    /\ UNCHANGED <<rpcVars, cliVars>>

\* read_all(handle, writer) begins at offset 0 with an empty writer
NfsReadAll ==
    \E n \in Names :
       /\ HasHandle(n)
       /\ Begin("read_all", n)
       /\ fpc' = "read_all"
       /\ cur' = [NoCur EXCEPT !.name = n]
       /\ UNCHANGED <<fs, made, lastOp, prevOp>>
       /\ UNCHANGED <<rpcVars, cliVars>>

\* one READ round trip: the server returns up to count bytes from offset; it
\* says eof only at the end of the file, and it may return nothing
NfsRead ==
    /\ fpc = "read_all"
    /\ IF ~fs[cur.name].there
       THEN Return([Op("read_all", cur.name, "Stale") EXCEPT !.trips = cur.trips + 1])
       ELSE LET d == fs[cur.name].data
                avail == Len(d) - cur.offset
            IN  \E count \in 0..Min(ChunkSize, avail), eof \in BOOLEAN :
                   /\ eof => cur.offset + count = Len(d)
                   /\ LET sink == cur.sink \o SubSeq(d, cur.offset + 1, cur.offset + count)
                          rd == [count |-> count, eof |-> eof]
                          after == ReadAllAfter(count, eof)
                      IN  IF after = "continue"
                          THEN /\ cur' = [cur EXCEPT !.offset = cur.offset + count,
                                                     !.sink = sink,
                                                     !.trips = cur.trips + 1,
                                                     !.rd = rd]
                               /\ UNCHANGED <<fpc, lastOp, prevOp>>
                          ELSE Return([Op("read_all", cur.name,
                                          IF after = "done" THEN "Ok" ELSE "Protocol")
                                       EXCEPT !.data = sink,
                                              !.size = cur.offset + count,
                                              !.trips = cur.trips + 1,
                                              !.rd = rd])
    /\ UNCHANGED <<fs, made, nops>>
    /\ UNCHANGED <<rpcVars, cliVars>>

\* write_all(handle, reader) begins at offset 0
NfsWriteAll ==
    \E n \in Names, src \in Sources :
       /\ HasHandle(n)
       /\ Begin("write_all", n)
       /\ fpc' = "write_all"
       /\ cur' = [NoCur EXCEPT !.name = n, !.given = src, !.src = src,
                                !.before = SizeOf(fs, n)]
       /\ UNCHANGED <<fs, made, lastOp, prevOp>>
       /\ UNCHANGED <<rpcVars, cliVars>>

\* one turn of the loop: the tail the server did not take, or else the next
\* chunk of the reader, goes out in one WRITE; the reader's EOF ends it
NfsWrite ==
    /\ fpc = "write_all"
    /\ LET fresh == cur.tail = <<>>
           chunk == IF fresh THEN SubSeq(cur.src, 1, Min(ChunkSize, Len(cur.src)))
                    ELSE cur.tail
           rest == IF fresh THEN SubSeq(cur.src, Len(chunk) + 1, Len(cur.src))
                   ELSE cur.src
       IN  IF chunk = <<>>
           THEN /\ Return([Op("write_all", cur.name, "Ok") EXCEPT
                              !.data = cur.given, !.before = cur.before,
                              !.trips = cur.trips])
                /\ fs' = fs
           ELSE IF ~fs[cur.name].there
           THEN /\ Return([Op("write_all", cur.name, "Stale") EXCEPT
                              !.data = cur.given, !.before = cur.before,
                              !.trips = cur.trips])
                /\ fs' = fs
           ELSE \E count \in 1..Len(chunk) :
                   /\ fs' = [fs EXCEPT ![cur.name].data =
                                Overwrite(@, cur.offset, SubSeq(chunk, 1, count))]
                   /\ cur' = [cur EXCEPT
                                !.offset = WriteAdvance(cur.offset, count, Len(chunk)),
                                !.tail = SubSeq(chunk, count + 1, Len(chunk)),
                                !.src = rest,
                                !.trips = cur.trips + 1]
                   /\ UNCHANGED <<fpc, lastOp, prevOp>>
    /\ UNCHANGED <<made, nops>>
    /\ UNCHANGED <<rpcVars, cliVars>>

NfsNext ==
    \/ NfsLookUp
    \/ NfsGetAttr
    \/ NfsSetAttr
    \/ NfsCreateFile
    \/ NfsRemove
    \/ NfsReadDir
    \/ NfsReadDirStep
    \/ NfsReadAll
    \/ NfsRead
    \/ NfsWriteAll
    \/ NfsWrite

SpecNfs == NfsInit /\ [][NfsNext]_vars

\* every loop of an operation in progress takes its next round trip
SpecNfsFair == SpecNfs /\ WF_vars(NfsRead) /\ WF_vars(NfsWrite) /\ WF_vars(NfsReadDirStep)

----------------------------------------------------------------------------
(* Properties.                                                             *)

IsReceive == ret.op = "receive_reply"
IsSend == ret.op = "send_request"

\* the most recent send_request put its whole message on the transport
LastSendSucceeded == lastCallXid # 0 /\ xid = lastCallXid + 1

\* C1: the xids carried by the call messages a client puts on the transport,
\* whole or in part, start at the seed 1 and strictly increase, so no two
\* of them are equal.
C1_WireXidsStrictlyIncreasing ==
    /\ wireXids # <<>> => wireXids[1] = XID_SEED
    /\ \A i \in 1..(Len(wireXids) - 1) : wireXids[i] < wireXids[i + 1]

\* C2: after a successful send_request, a reply that decodes with an xid
\* other than that request's makes receive_reply return UnexpectedReply.
C2_MismatchedXidIsUnexpectedReply ==
    (IsReceive /\ ret.decoded /\ LastSendSucceeded
        /\ ret.reply_xid # U32BE(lastCallXid))
    => ret.res = "UnexpectedReply"

\* what receive_reply<T> returns for the message of descriptor d when it
\* arrives in a single fragment of the message's length
SingleFragmentResult(d, T) ==
    LET reply == DecodeMessage(SerializeReply(d.xid, d.body), T) IN
    IF reply.st = "ok" THEN ReplyResult(reply) ELSE "Deseralization"

\* C3: a reply that arrives in several fragments gives the result that the
\* same message gives in a single fragment.
C3_FragmentsAreReassembled ==
    (IsReceive /\ ret.head.shape = "split")
    => ret.res = SingleFragmentResult(ret.head, ret.T)

\* C4: a send_request that returns Ok has written one record mark and the
\* serialized call message: the mark's top bit is set and its low 31 bits
\* are the number of bytes written minus 4.
C4_OneLastFragment ==
    (IsSend /\ ret.res = "Ok")
    => LET n == Len(lastWrite)
           mark == SubSeq(lastWrite, 1, 4)
       IN  /\ n >= 4
           /\ mark[1] >= 128
           /\ (mark[1] - 128) * 16777216 + mark[2] * 65536 + mark[3] * 256 + mark[4]
                 = n - 4
           /\ \E p \in Procedures, a \in CallArgs :
                 /\ CanSerialize(a)
                 /\ SubSeq(lastWrite, 5, n) =
                       SerializeMessage(CallMessage(lastCallXid, program, p, a))

\* a call with a u32 argument was sent: the mark, 76 bytes of call and 4 of
\* argument
C4_Witness == IsSend /\ ret.res = "Ok" /\ Len(lastWrite) = 84

RpcResults ==
    {"Ok", "ProgramUnavailable", "ProgramMismatch", "ProcedureUnavailable",
     "GarbageArguments", "SystemError"}

\* C5: a receive_reply that returns the payload or a typed RPC error has
\* consumed the 4 bytes of the record mark plus the length the mark declares.
C5_ConsumesWholeFragment ==
    (IsReceive /\ ret.decoded /\ ret.res \in RpcResults)
    => ret.consumed = 4 + ret.declared

RpcErrors ==
    {"ProgramUnavailable", "ProgramMismatch", "ProcedureUnavailable",
     "GarbageArguments", "SystemError"}

\* C6: receive_reply returns Ok exactly for a decoded Accepted/Success reply
\* and the error of the same name for each other accepted body; an empty
\* Accepted/Success reply read as () gives Ok(()).
C6_AcceptedMapping ==
    IsReceive
    => /\ (ret.res = "Ok")
            <=> (ret.decoded /\ ret.kind = "Accepted" /\ ret.stat = "Success")
       /\ \A e \in RpcErrors :
            (ret.res = e) <=> (ret.decoded /\ ret.kind = "Accepted" /\ ret.stat = e)
       /\ ret.head.shape = "exact"
            => /\ (ret.head.body = "Success" /\ ret.T = "unit")
                    => (ret.res = "Ok" /\ ret.payload = <<>>)
               /\ (ret.head.body = "SuccessU32" /\ ret.T = "u32")
                    => (ret.res = "Ok" /\ ret.payload = <<0, 0, 0, 7>>)
               /\ ret.head.body \in RpcErrors => ret.res = ret.head.body

\* the NULL call of the first request was answered by an empty success
C6_Witness ==
    /\ IsReceive /\ ret.res = "Ok" /\ ret.T = "unit"
    /\ ret.head = [xid |-> 1, body |-> "Success", shape |-> "exact"]

\* C7: a reply whose body is Denied makes receive_reply return RpcDenied,
\* not UnexpectedReply.
C7_DeniedIsRpcDenied ==
    (IsReceive /\ ret.decoded /\ ret.kind = "Denied")
    => (ret.res = "RpcDenied" /\ ret.res # "UnexpectedReply")

C9_TruncatedFrame ==
    IsReceive
    => /\ ret.consumed <= 4 + ret.declared
       /\ ret.head.shape = "short"
            => /\ ret.res = "Deseralization"
               /\ ret.consumed = 4 + ret.declared
               /\ pend # <<>> => pend[1].off = 0

\* a truncated frame was received while another frame followed it
C9_Witness ==
    /\ IsReceive /\ ret.head.shape = "short" /\ ret.res = "Deseralization"
    /\ ret.left > 0

\* credential and verifier of every call: AUTH_SYS {stamp 0, "test-machine",
\* uid 1337, gid 42, gids [1337]}, then AUTH_NONE
ExpectedAuthBytes ==
    << 0, 0, 0, 1,   0, 0, 0, 36,   0, 0, 0, 0,   0, 0, 0, 12,
       116, 101, 115, 116, 45, 109, 97, 99, 104, 105, 110, 101,
       0, 0, 5, 57,   0, 0, 0, 42,   0, 0, 0, 1,   0, 0, 5, 57,
       0, 0, 0, 0,   0, 0, 0, 0 >>

\* C10: every call message written carries rpc_version 2, version 4, the
\* program given at construction, the same AUTH_SYS credential and an
\* AUTH_NONE verifier; the client's program never changes.
C10_FixedCallFields ==
    /\ program = progArg
    /\ (IsSend /\ ret.res = "Ok")
         => /\ W(lastWrite, 8) = <<0, 0, 0, 0>>
            /\ W(lastWrite, 12) = <<0, 0, 0, 2>>
            /\ W(lastWrite, 16) = U32BE(progArg)
            /\ W(lastWrite, 20) = <<0, 0, 0, 4>>
            /\ SubSeq(lastWrite, 29, 80) = ExpectedAuthBytes

\* the second request went out, for another procedure than NULL
C10_Witness ==
    /\ IsSend /\ ret.res = "Ok" /\ xid = 3
    /\ W(lastWrite, 24) = <<0, 0, 0, 1>>

----------------------------------------------------------------------------
(* C16: the xid changes only in send_request and only on success.  A step  *)
(* that changes the xid is a send_request that returned Ok, raised the xid *)
(* by exactly one and put the value before the increment on the wire; a    *)
(* send_request that returned an error (Serialization, or Io after a       *)
(* partial write) leaves the xid as it was, so that the message the next   *)
(* send_request builds carries the xid of the failed one.                  *)

SendStep == ncalls' = ncalls + 1

ReceiveStep == nrecv' = nrecv + 1

XidStep ==
    /\ xid' # xid =>
          /\ SendStep
          /\ ret'.res = "Ok"
          /\ xid' = xid + 1
          /\ lastCallXid' = xid
          /\ Low31(SubSeq(lastWrite', 5, 8)) = xid
    /\ SendStep /\ ret'.res = "Ok" => xid' = xid + 1
    /\ SendStep /\ ret'.res # "Ok" => xid' = xid
    /\ SendStep => lastCallXid' = xid
    /\ SendStep /\ IsSend /\ ret.res # "Ok" => lastCallXid' = lastCallXid

C16_XidChangesOnlyOnSuccessfulSend == [][XidStep]_vars

\* a failed send_request was followed by one that built the same xid, and a
\* successful one by a higher xid
C16_Witness ==
    /\ IsSend
    /\ ret.res = "Ok"
    /\ wireXids = <<XID_SEED, XID_SEED>>
    /\ xid = XID_SEED + 1
    /\ ncalls = 2

----------------------------------------------------------------------------
(* C17: receive_reply never writes to the transport and leaves xid and     *)
(* program unchanged whatever its outcome (no request is sent again), and  *)
(* send_request never reads from the transport.                            *)

FrameStep ==
    /\ ReceiveStep =>
          /\ nwrites' = nwrites
          /\ lastWrite' = lastWrite
          /\ wireXids' = wireXids
          /\ xid' = xid
          /\ program' = program
    /\ SendStep =>
          /\ inbuf' = inbuf
          /\ nrecv' = nrecv

C17_ReceiveDoesNotWrite == [][FrameStep]_vars

\* a receive_reply returned an error that a retrying client would answer
\* with a second request, and the transport has seen one write only
C17_Witness ==
    /\ IsReceive
    /\ ret.res = "UnexpectedReply"
    /\ nwrites = 1
    /\ ncalls = 1

----------------------------------------------------------------------------
(* C18: every command that takes a path (get-attr, set-attr, read-dir, ls, *)
(* remove, download, upload) calls look_up before any other client         *)
(* operation, on the path, or on the parent directory for remove and       *)
(* upload; it ends with Ok only after that call, and touches a local file  *)
(* only after it succeeded.  When look_up fails the command returns that   *)
(* error with no further client operation and with no local file created   *)
(* or opened.                                                              *)

LocalUntouched == localHandle = "none" /\ localFile \in {"absent", "old"}

C18_LookUpFirst ==
    command.name \in PathCommands =>
       /\ ops # <<>> =>
             /\ ops[1].op = "look_up"
             /\ ops[1].arg = IF command.name \in {"remove", "upload"}
                             THEN "parent" ELSE "path"
       /\ cpc = "done" => ops # <<>> /\ ops[1].res = "Ok"
       /\ ~LocalUntouched => ops # <<>> /\ ops[1].res = "Ok"
       /\ ops # <<>> /\ ops[1].res # "Ok" =>
             /\ Len(ops) = 1
             /\ cpc = "error"
             /\ cliRet = ops[1].res
             /\ LocalUntouched

\* an upload whose look_up of the parent directory failed
C18_Witness ==
    /\ command.name = "upload"
    /\ ops = <<[op |-> "look_up", arg |-> "parent", res |-> "NotFound"]>>
    /\ cpc = "error"
    /\ cliRet = "NotFound"
    /\ localFile = "old"
    /\ remoteFile = "absent"

----------------------------------------------------------------------------
(* C19: upload calls look_up(parent), create_file(parent, name), opens the *)
(* local file and calls write_all, in that order, each only after the one  *)
(* before succeeded: the local file is opened only after create_file       *)
(* succeeded and write_all is called only with the local file open.  When  *)
(* the local file cannot be opened the command returns the error, the      *)
(* remote file create_file made (empty when it was not there before) stays *)
(* and no write_all was called.                                            *)

UploadOrder == <<"look_up", "create_file", "write_all">>

OpsFollow(order) ==
    /\ Len(ops) <= Len(order)
    /\ \A i \in 1..Len(ops) :
          /\ ops[i].op = order[i]
          /\ i < Len(ops) => ops[i].res = "Ok"

----------------------------------------------------------------------------
(* C20: download calls look_up(remote) and get_attr(handle), creates the   *)
(* local file and calls read_all, in that order: the local file is created *)
(* (truncated) only after look_up and get_attr both succeeded, read_all is *)
(* called only after the local file was created, and a read_all that fails *)
(* leaves the local file, empty or partly written, in place.               *)

DownloadOrder == <<"look_up", "get_attr", "read_all">>

C20_DownloadOrder ==
    command.name = "download" =>
       /\ OpsFollow(DownloadOrder)
       /\ ~LocalUntouched =>
             /\ Len(ops) >= 2
             /\ ops[1].res = "Ok"
             /\ ops[2].res = "Ok"
       /\ Len(ops) = 3 => localHandle # "none" /\ localFile \notin {"absent", "old"}
       /\ Len(ops) = 3 /\ ops[3].res # "Ok" =>
             /\ cpc = "error"
             /\ cliRet = ops[3].res
             /\ localFile \in {"empty", "partial"}

\* a read_all that failed after part of the file was written
C20_Witness ==
    /\ command.name = "download"
    /\ Len(ops) = 3
    /\ ops[3] = [op |-> "read_all", arg |-> "handle", res |-> "Io"]
    /\ cpc = "error"
    /\ localFile = "partial"

----------------------------------------------------------------------------
(* C11: write_all followed by read_all on the same handle delivers exactly *)
(* the bytes that were written, and get_attr then reports Size equal to    *)
(* their length, across chunk boundaries, when the server accepts fewer    *)
(* bytes than submitted and when it returns short reads.                   *)

WroteThenRead ==
    /\ fpc = "idle"
    /\ prevOp.op = "write_all"
    /\ prevOp.res = "Ok"
    /\ lastOp.op = "read_all"
    /\ lastOp.res = "Ok"
    /\ lastOp.name = prevOp.name

WroteThenGotAttr ==
    /\ fpc = "idle"
    /\ prevOp.op = "write_all"
    /\ prevOp.res = "Ok"
    /\ lastOp.op = "get_attr"
    /\ lastOp.name = prevOp.name
    /\ fs[lastOp.name].there

----------------------------------------------------------------------------
(* C12: read_all always terminates.  It issues READs at an offset that     *)
(* advances by the byte count of each reply, ends with success at the      *)
(* first reply with eof, ends with a protocol error at a reply of zero     *)
(* bytes without eof, and goes on after a short read without eof; on an    *)
(* empty file it ends after the first READ, with zero bytes.               *)

ReadAllSteps ==
    /\ fpc = "read_all" =>
          /\ cur.offset = Len(cur.sink)
          /\ cur.trips > 0 => cur.rd.count > 0 /\ ~cur.rd.eof
          /\ cur.trips <= cur.offset
    /\ lastOp.op = "read_all" /\ lastOp.res = "Ok" =>
          /\ lastOp.rd.eof
          /\ lastOp.size = Len(lastOp.data)
    /\ lastOp.op = "read_all" /\ lastOp.res = "Protocol" =>
          /\ lastOp.rd.count = 0
          /\ ~lastOp.rd.eof
    /\ lastOp.op = "read_all" /\ lastOp.res = "Ok" /\ fpc = "idle"
          /\ SizeOf(fs, lastOp.name) = 0 =>
             /\ lastOp.trips = 1
             /\ lastOp.data = <<>>

C12_ReadAllTerminates == []ReadAllSteps /\ ((fpc = "read_all") ~> (fpc = "idle"))

\* a read_all of three bytes that went on after short reads and ended at eof
C12_Witness ==
    /\ fpc = "idle"
    /\ lastOp.op = "read_all"
    /\ lastOp.res = "Ok"
    /\ lastOp.data = <<5, 6, 7>>
    /\ lastOp.trips = 4
    /\ lastOp.rd = [count |-> 0, eof |-> TRUE]

----------------------------------------------------------------------------
(* C13: read_dir over several READDIR round trips returns the names the    *)
(* server holds, each once: the first request carries cookie 0, each later *)
(* one the cookie of the last entry of the reply before it and the         *)
(* verifier the server returned, and the listing ends at the first reply   *)
(* with eof.                                                               *)

C13_ReadDirComplete ==
    lastOp.op = "read_dir" /\ lastOp.res = "Ok" /\ fpc = "idle" =>
       /\ {lastOp.names[i] : i \in 1..Len(lastOp.names)} = {n \in Names : fs[n].there}
       /\ Len(lastOp.names) = Cardinality({n \in Names : fs[n].there})
       /\ lastOp.reqs[1] = [cookie |-> 0, verifier |-> 0]
       /\ Len(lastOp.reqs) = Len(lastOp.reps)
       /\ \A i \in 2..Len(lastOp.reqs) :
             /\ lastOp.reqs[i].cookie = lastOp.reps[i - 1].cookie
             /\ lastOp.reqs[i].verifier = lastOp.reps[i - 1].verifier
       /\ \A i \in 1..Len(lastOp.reps) : lastOp.reps[i].eof <=> i = Len(lastOp.reps)

\* three names listed in three round trips
C13_Witness ==
    /\ fpc = "idle"
    /\ lastOp.op = "read_dir"
    /\ lastOp.res = "Ok"
    /\ lastOp.names = <<"a", "b", "c">>
    /\ Len(lastOp.reqs) = 3

----------------------------------------------------------------------------
(* C14: look_up reflects the most recent create_file or remove of a name:  *)
(* after a create_file that succeeded look_up succeeds, after a remove     *)
(* that succeeded look_up fails with NotFound.                             *)

C14_LookUpReflectsLatest ==
    lastOp.op = "look_up" =>
       /\ made[lastOp.name] = "created" => lastOp.res = "Ok"
       /\ made[lastOp.name] = "removed" => lastOp.res = "NotFound"

\* a file that was there is removed and then looked up
C14_Witness ==
    /\ prevOp.op = "remove"
    /\ prevOp.res = "Ok"
    /\ lastOp.op = "look_up"
    /\ lastOp.name = prevOp.name
    /\ lastOp.res = "NotFound"

----------------------------------------------------------------------------
(* C15: after a set_attr(handle, {Size: s}) that succeeded, get_attr on    *)
(* the same file reports Size equal to s.                                  *)

C15_SetSizeThenGetAttr ==
    /\ lastOp.op = "get_attr"
    /\ prevOp.op = "set_attr"
    /\ prevOp.res = "Ok"
    /\ lastOp.name = prevOp.name
    => /\ lastOp.res = "Ok"
       /\ lastOp.size = prevOp.size

\* an empty file grown to two bytes
C15_Witness ==
    /\ prevOp.op = "set_attr"
    /\ prevOp.res = "Ok"
    /\ prevOp.size = 2
    /\ lastOp.op = "get_attr"
    /\ lastOp.name = "a"
    /\ prevOp.name = "a"
    /\ lastOp.size = 2
    /\ made["a"] = "none"
====
